---- MODULE Spec2Model ----
(***************************************************************************)
(* Document construction and text chunking of the knowledge-system sample: *)
(* the C++ unit (class Document, class TextChunker) and the C unit         *)
(* (document_create, chunk_text).  A string is a sequence of one-character *)
(* strings.                                                                *)
(***************************************************************************)
EXTENDS Integers, Sequences, FiniteSets, TLC

VARIABLES
    lang,              \* "none", "cpp" or "c": the unit whose operation runs
    pc,                \* "start", "configured", "ACCUMULATING", "DONE",
                       \* "returned", "CRASHED"
    content,           \* argument of the Document constructor / document_create
    source,            \* argument of the Document constructor / document_create
    doc,               \* <<>>: no Document; <<d>>: the constructed Document d
    err,               \* "none", "invalid_argument", "no_memory"
    text,              \* argument of chunk / chunk_text
    chunks,            \* the chunks emitted so far, in order
    chunkSize_,        \* TextChunker::chunkSize_
    pos,               \* read position of the istringstream in chunk
    currentChunk,      \* TextChunker::chunk's accumulator
    chunk_size,        \* chunk_text's parameter
    start,             \* chunk_text: offset of start from text
    chunk_count,       \* chunk_text: *chunk_count
    estimated_chunks   \* chunk_text: slots allocated for the result array

vars == <<lang, pc, content, source, doc, err, text, chunks, chunkSize_, pos,
          currentChunk, chunk_size, start, chunk_count, estimated_chunks>>

docVars == <<content, source, doc, err>>
cppVars == <<chunkSize_, pos, currentChunk>>
cVars == <<chunk_size, start, chunk_count, estimated_chunks>>

----------------------------------------------------------------------------
(* Bounds of the model *)

MaxContentLen == 3
MaxTextLen == 6
MaxChunkSize == 4
MaxCTextLen == 8
MaxCChunkSize == 3
MaxOverrun == 2

(* Program constants *)

DEFAULT_CHUNK_SIZE == 1000

----------------------------------------------------------------------------
(* Strings *)

SeqsUpTo(S, n) == UNION {[1..k -> S] : k \in 0..n}

\* The null pointer: a value that is no string over one-character elements.
NULL == <<"(null)">>

\* The example text "A short sentence. Another one here. And a third."
ExampleText ==
  <<
    "A", " ", "s", "h", "o", "r", "t", " ", "s", "e", "n", "t",
    "e", "n", "c", "e", ".", " ", "A", "n", "o", "t", "h", "e",
    "r", " ", "o", "n", "e", " ", "h", "e", "r", "e", ".", " ",
    "A", "n", "d", " ", "a", " ", "t", "h", "i", "r", "d", "."
  >>

ContentAlphabet == {"a", " ", "\t", "\n", "\r"}
Contents == SeqsUpTo(ContentAlphabet, MaxContentLen)
Sources == {<<>>, <<"f">>}

TextAlphabet == {"a", ".", " "}
Texts == SeqsUpTo(TextAlphabet, MaxTextLen) \cup {ExampleText}
ChunkSizes == ((-1)..MaxChunkSize) \cup {20, DEFAULT_CHUNK_SIZE}

CTextAlphabet == {"a", ".", "\n"}
CTexts == SeqsUpTo(CTextAlphabet, MaxCTextLen)
CChunkSizes == (-1)..MaxCChunkSize

----------------------------------------------------------------------------
(* Conversions between size_t and int *)

\* n > i where n is a size_t and i an int: i is converted to size_t, so a
\* negative i becomes a value of at least 2^63, above every string length.
SizeGtInt(n, i) == IF i < 0 THEN FALSE ELSE n > i

\* n < i where n is a size_t and i an int, converted the same way.
SizeLtInt(n, i) == IF i < 0 THEN TRUE ELSE n < i

\* n / i where n is a size_t and i a non-zero int, converted the same way.
SizeDivInt(n, i) == IF i < 0 THEN 0 ELSE n \div i

----------------------------------------------------------------------------
(* Document: word counting *)

\* std::ctype<char>::is(space, c) in the classic locale, which operator>>
\* uses to skip and to end a word.
CppIsSpace(c) == c \in {" ", "\t", "\n", "\r", "\f"}

\* The test of document_create's scan.
CIsSpace(c) == c \in {" ", "\n", "\t"}

\* The position after the whitespace operator>> skips from position i.
RECURSIVE SkipSpace(_, _)
SkipSpace(s, i) ==
    IF i <= Len(s) /\ CppIsSpace(s[i]) THEN SkipSpace(s, i + 1) ELSE i

\* The position after the word operator>> extracts from position i.
RECURSIVE SkipWord(_, _)
SkipWord(s, i) ==
    IF i <= Len(s) /\ ~CppIsSpace(s[i]) THEN SkipWord(s, i + 1) ELSE i

\* while (stream >> word) count++, with the stream at position i.
RECURSIVE CountFrom(_, _, _)
CountFrom(s, i, count) ==
    LET w == SkipSpace(s, i) IN
    IF w > Len(s) THEN count
    ELSE CountFrom(s, SkipWord(s, w), count + 1)

countWords(s) == CountFrom(s, 1, 0)

\* The for loop of document_create: p is the position, in_word the flag.
RECURSIVE ScanWords(_, _, _, _)
ScanWords(s, p, in_word, word_count) ==
    IF p > Len(s) THEN word_count
    ELSE IF CIsSpace(s[p]) THEN ScanWords(s, p + 1, 0, word_count)
    ELSE IF in_word = 0 THEN ScanWords(s, p + 1, 1, word_count + 1)
    ELSE ScanWords(s, p + 1, in_word, word_count)

word_count_InWordAtStart(s) == ScanWords(s, 1, 1, 0)

word_count(s) == ScanWords(s, 1, 0, 0)

----------------------------------------------------------------------------
(* Document: construction *)

CppContentRejectedTrimmed(c) == \A i \in 1..Len(c) : CppIsSpace(c[i])

\* content.empty()
CppContentRejected(c) == Len(c) = 0

\* content == NULL || strlen(content) == 0
CContentRejected(c) == c = NULL \/ Len(c) = 0

Init ==
    /\ lang = "none"
    /\ pc = "start"
    /\ content = <<>>
    /\ source = <<>>
    /\ doc = <<>>
    /\ err = "none"
    /\ text = <<>>
    /\ chunks = <<>>
    /\ chunkSize_ = DEFAULT_CHUNK_SIZE
    /\ pos = 0
    /\ currentChunk = <<>>
    /\ chunk_size = DEFAULT_CHUNK_SIZE
    /\ start = 0
    /\ chunk_count = 0
    /\ estimated_chunks = 0

\* Document::Document(content, source)
DocumentCtor(c, s) ==
    /\ pc = "start"
    /\ lang' = "cpp"
    /\ pc' = "returned"
    /\ content' = c
    /\ source' = s
    /\ \/ /\ CppContentRejected(c)
          /\ err' = "invalid_argument"
          /\ doc' = <<>>
       \/ /\ ~CppContentRejected(c)
          /\ err' = "none"
          /\ doc' = <<[content |-> c, source |-> s, wordCount |-> countWords(c)]>>
    /\ UNCHANGED <<text, chunks, cppVars, cVars>>

\* TextParser::parse(buffer, filename)
TextParserParse(buffer, filename) == DocumentCtor(buffer, filename)

\* document_create(content, source); mallocOk: whether malloc returns a block
document_create(c, s, mallocOk) ==
    /\ pc = "start"
    /\ lang' = "c"
    /\ content' = c
    /\ source' = s
    /\ \/ /\ CContentRejected(c)
          /\ pc' = "returned"
          /\ err' = "invalid_argument"
          /\ doc' = <<>>
       \/ /\ ~CContentRejected(c)
          /\ ~mallocOk
          /\ pc' = "returned"
          /\ err' = "no_memory"
          /\ doc' = <<>>
       \/ /\ ~CContentRejected(c)
          /\ mallocOk
          /\ s # NULL
          /\ pc' = "returned"
          /\ err' = "none"
          /\ doc' = <<[content |-> c, source |-> s, wordCount |-> word_count(c)]>>
       \/ \* strdup(NULL) is undefined: the call faults in strlen ...
          /\ ~CContentRejected(c)
          /\ mallocOk
          /\ s = NULL
          /\ pc' = "CRASHED"
          /\ err' = "none"
          /\ doc' = <<>>
       \/ \* ... or hands NULL back, and the Document keeps a null source
          /\ ~CContentRejected(c)
          /\ mallocOk
          /\ s = NULL
          /\ pc' = "returned"
          /\ err' = "none"
          /\ doc' = <<[content |-> c, source |-> NULL, wordCount |-> word_count(c)]>>
    /\ UNCHANGED <<text, chunks, cppVars, cVars>>

DocNext ==
    \/ /\ pc = "start"
       /\ \E c \in Contents, s \in Sources : DocumentCtor(c, s)
    \/ /\ pc = "start"
       /\ \E c \in Contents, s \in Sources : TextParserParse(c, s)
    \/ /\ pc = "start"
       /\ \E c \in Contents \cup {NULL}, s \in Sources \cup {NULL},
              m \in BOOLEAN : document_create(c, s, m)

SpecDoc == Init /\ [][DocNext]_vars

----------------------------------------------------------------------------
(* TextChunker (C++) *)

Min(a, b) == IF a < b THEN a ELSE b

\* The separator chunk() inserts between two sentences of one chunk.
Separator == <<".", " ">>

\* std::getline(stream, sentence, '.') at read position p: the index of the
\* first '.' after p, or Len(t) + 1 when the stream ends first.
GetlineEnd(t, p) ==
    IF \E i \in (p + 1)..Len(t) : t[i] = "."
    THEN CHOOSE i \in (p + 1)..Len(t) :
             t[i] = "." /\ \A j \in (p + 1)..(i - 1) : t[j] # "."
    ELSE Len(t) + 1

\* The sentence getline stores: the characters before the delimiter.
GetlineSentence(t, p) == SubSeq(t, p + 1, GetlineEnd(t, p) - 1)

\* The read position after getline: the delimiter is extracted and dropped.
GetlinePos(t, p) == Min(GetlineEnd(t, p), Len(t))

\* currentChunk.length() + sentence.length() > chunkSize_
ExceedsChunkSize(cur, sentence, size) ==
    SizeGtInt(Len(cur) + Len(sentence), size)

JoinWithoutSeparator(cur, sentence) == cur \o sentence

\* if (!currentChunk.empty()) currentChunk += ". "; currentChunk += sentence
Join(cur, sentence) ==
    IF cur # <<>> THEN cur \o Separator \o sentence ELSE sentence

FinalFlushDropped(out, cur) == out

\* if (!currentChunk.empty()) chunks.push_back(currentChunk)
FinalFlush(out, cur) == IF cur # <<>> THEN Append(out, cur) ELSE out

\* TextChunker::TextChunker(chunkSize)
TextChunkerCtor(size) ==
    /\ pc = "start"
    /\ lang' = "cpp"
    /\ pc' = "configured"
    /\ chunkSize_' = size
    /\ UNCHANGED <<docVars, text, chunks, pos, currentChunk, cVars>>

\* TextChunker::chunk(text): the locals are set up
ChunkBegin(t) ==
    /\ lang = "cpp"
    /\ pc = "configured"
    /\ pc' = "ACCUMULATING"
    /\ text' = t
    /\ chunks' = <<>>
    /\ currentChunk' = <<>>
    /\ pos' = 0
    /\ UNCHANGED <<lang, docVars, chunkSize_, cVars>>

\* One iteration of while (std::getline(stream, sentence, '.'))
ChunkLoop ==
    /\ lang = "cpp"
    /\ pc = "ACCUMULATING"
    /\ pos < Len(text)
    /\ LET sentence == GetlineSentence(text, pos)
           flush == /\ sentence # <<>>
                    /\ ExceedsChunkSize(currentChunk, sentence, chunkSize_)
                    /\ currentChunk # <<>>
           kept == IF flush THEN <<>> ELSE currentChunk
       IN  /\ chunks' = IF flush THEN Append(chunks, currentChunk) ELSE chunks
           /\ currentChunk' =
                  IF sentence # <<>> THEN Join(kept, sentence) ELSE currentChunk
    /\ pos' = GetlinePos(text, pos)
    /\ UNCHANGED <<lang, pc, docVars, text, chunkSize_, cVars>>

\* getline fails at the end of the stream: the last flush and the return
ChunkEnd ==
    /\ lang = "cpp"
    /\ pc = "ACCUMULATING"
    /\ pos >= Len(text)
    /\ chunks' = FinalFlush(chunks, currentChunk)
    /\ pc' = "DONE"
    /\ UNCHANGED <<lang, docVars, text, chunkSize_, pos, currentChunk, cVars>>

ChunkStep == ChunkLoop \/ ChunkEnd

ChunkNext ==
    \/ /\ pc = "start"
       /\ \E size \in ChunkSizes : TextChunkerCtor(size)
    \/ /\ pc = "configured"
       /\ \E t \in Texts : ChunkBegin(t)
    \/ ChunkStep

SpecChunk == Init /\ [][ChunkNext]_vars

----------------------------------------------------------------------------
(* chunk_text (C) *)

\* start[i] for the text t and the offset s of start: the character, or the
\* terminating NUL at the end of the string.
CharAt(t, s, i) == IF s + i < Len(t) THEN t[s + i + 1] ELSE "NUL"

\* while (len > 0 && start[len] != '.' && start[len] != '\n') len--
RECURSIVE FindBoundary(_, _, _)
FindBoundary(t, s, len) ==
    IF len > 0 /\ CharAt(t, s, len) # "." /\ CharAt(t, s, len) # "\n"
    THEN FindBoundary(t, s, len - 1)
    ELSE len

\* The length of the chunk the loop body cuts at offset s.
ChunkLen(t, s, size) ==
    IF SizeLtInt(Len(t) - s, size) THEN Len(t) - s
    ELSE LET len == FindBoundary(t, s, size)
         IN  IF len = 0 THEN size ELSE len + 1

\* (text_len / chunk_size) + 1
EstimatedChunks(t, size) == SizeDivInt(Len(t), size) + 1

\* chunk_text(text, chunk_size, chunk_count) up to the loop
chunk_text_begin(t, size) ==
    /\ pc = "start"
    /\ lang' = "c"
    /\ text' = t
    /\ chunk_size' = size
    /\ chunks' = <<>>
    /\ chunk_count' = 0
    /\ start' = 0
    /\ \/ /\ size # 0
          /\ estimated_chunks' = EstimatedChunks(t, size)
          /\ pc' = "ACCUMULATING"
       \/ \* text_len / 0 is undefined: the divide traps ...
          /\ size = 0
          /\ estimated_chunks' = 0
          /\ pc' = "CRASHED"
       \/ \* ... or yields 0 where the divide instruction does not trap
          /\ size = 0
          /\ estimated_chunks' = 1
          /\ pc' = "ACCUMULATING"
    /\ UNCHANGED <<docVars, cppVars>>

\* One iteration of while (*start)
chunk_text_loop ==
    /\ lang = "c"
    /\ pc = "ACCUMULATING"
    /\ start < Len(text)
    /\ LET len == ChunkLen(text, start, chunk_size)
           piece == SubSeq(text, start + 1, start + len)
       IN  \/ /\ chunk_count < estimated_chunks
              /\ chunks' = Append(chunks, piece)
              /\ chunk_count' = chunk_count + 1
              /\ start' = start + len
              /\ pc' = "ACCUMULATING"
           \/ \* A store past the end of the array is undefined: it lands
              \* in the memory after the array and the loop goes on ...
              /\ chunk_count >= estimated_chunks
              /\ chunk_count - estimated_chunks < MaxOverrun
              /\ chunks' = Append(chunks, piece)
              /\ chunk_count' = chunk_count + 1
              /\ start' = start + len
              /\ pc' = "ACCUMULATING"
           \/ \* ... or the process is stopped at the store
              /\ chunk_count >= estimated_chunks
              /\ pc' = "CRASHED"
              /\ UNCHANGED <<chunks, chunk_count, start>>
    /\ UNCHANGED <<lang, docVars, text, cppVars, chunk_size, estimated_chunks>>

\* *start is the terminating NUL: return chunks
chunk_text_end ==
    /\ lang = "c"
    /\ pc = "ACCUMULATING"
    /\ start >= Len(text)
    /\ pc' = "DONE"
    /\ UNCHANGED <<lang, docVars, text, chunks, cppVars, cVars>>

chunk_text_step == chunk_text_loop \/ chunk_text_end

CNext ==
    \/ /\ pc = "start"
       /\ \E t \in CTexts, size \in CChunkSizes : chunk_text_begin(t, size)
    \/ chunk_text_step

SpecC == Init /\ [][CNext]_vars

----------------------------------------------------------------------------
(* The whole program, and the chunkers under the fairness of sequential    *)
(* execution: a running loop takes its next step.                          *)

Next == DocNext \/ ChunkNext \/ CNext

Spec == Init /\ [][Next]_vars

ChunkerNext == ChunkNext \/ CNext

FairSpec ==
    /\ Init
    /\ [][ChunkerNext]_vars
    /\ WF_vars(ChunkStep)
    /\ WF_vars(chunk_text_step)

----------------------------------------------------------------------------
(* Definitions the properties below are stated with *)

\* The number of maximal runs of characters outside ws in s.
MaximalRuns(s, ws) ==
    Cardinality({i \in 1..Len(s) :
                     s[i] \notin ws /\ (i = 1 \/ s[i - 1] \in ws)})

\* The characters the word count of the running unit treats as whitespace.
Blank ==
    IF lang = "c" THEN {" ", "\t", "\n"}
    ELSE {" ", "\t", "\n", "\r", "\f"}

NoDelimiter(t) == \A i \in 1..Len(t) : t[i] # "."

\* Nothing follows the last '.'.
DotTerminated(t) == t = <<>> \/ t[Len(t)] = "."

\* No '.' stands first or directly after another '.'.
NoEmptyFragment(t) ==
    \A i \in 1..Len(t) : t[i] = "." => (i > 1 /\ t[i - 1] # ".")

\* The index of the first ". " in c, or 0.
FirstSeparator(c) ==
    IF \E i \in 1..(Len(c) - 1) : c[i] = "." /\ c[i + 1] = " "
    THEN CHOOSE i \in 1..(Len(c) - 1) :
             /\ c[i] = "." /\ c[i + 1] = " "
             /\ \A j \in 1..(i - 1) : ~(c[j] = "." /\ c[j + 1] = " ")
    ELSE 0

\* The fragments of the chunk c: c split on ". ".
RECURSIVE SplitOnSeparator(_)
SplitOnSeparator(c) ==
    LET i == FirstSeparator(c) IN
    IF i = 0 THEN <<c>>
    ELSE <<SubSeq(c, 1, i - 1)>> \o SplitOnSeparator(SubSeq(c, i + 2, Len(c)))

\* The fragments fs concatenated, a '.' restored after each.
RECURSIVE RestoreDelimiters(_)
RestoreDelimiters(fs) ==
    IF fs = <<>> THEN <<>>
    ELSE Head(fs) \o <<".">> \o RestoreDelimiters(Tail(fs))

\* The text rebuilt from the chunks cs, in order.
RECURSIVE Reconstruct(_)
Reconstruct(cs) ==
    IF cs = <<>> THEN <<>>
    ELSE RestoreDelimiters(SplitOnSeparator(Head(cs))) \o Reconstruct(Tail(cs))

CppDone == lang = "cpp" /\ pc = "DONE"

\* The chunks the example expects of ExampleText with chunkSize 20.
ExampleChunks ==
  <<
    << "A", " ", "s", "h", "o", "r", "t", " ", "s", "e", "n", "t",
       "e", "n", "c", "e", "." >>,
    << "A", "n", "o", "t", "h", "e", "r", " ", "o", "n", "e", " ",
       "h", "e", "r", "e", "." >>,
    << "A", "n", "d", " ", "a", " ", "t", "h", "i", "r", "d", "." >>
  >>

----------------------------------------------------------------------------
(* Properties *)

\* C1: the wordCount of every constructed Document equals the number of
\* maximal runs of characters other than space, tab and newline in its
\* content.
C1_WordCountIsMaximalRuns ==
    \A i \in 1..Len(doc) :
        doc[i].wordCount = MaximalRuns(doc[i].content, {" ", "\t", "\n"})

\* C2 as stated: every constructed Document has wordCount >= 1.
C2_WordCountAtLeastOne ==
    \A i \in 1..Len(doc) : doc[i].wordCount >= 1

\* C2 as amended: every constructed Document has wordCount >= 0, and
\* wordCount = 0 exactly when every character of its content is whitespace
\* for the unit that counted.
C2_WordCountZeroIffBlank ==
    \A i \in 1..Len(doc) :
        /\ doc[i].wordCount >= 0
        /\ doc[i].wordCount = 0 <=>
               \A k \in 1..Len(doc[i].content) : doc[i].content[k] \in Blank

\* A Document constructed from non-empty content has wordCount 0.
C2_BlankDocumentWitness ==
    /\ doc # <<>>
    /\ Len(doc[1].content) >= 1
    /\ doc[1].wordCount = 0

\* C3: construction from empty content ends in the invalid-argument error
\* with no Document, whatever the source; construction from content of
\* length >= 1 never ends in that error.
C3_EmptyContentRejected ==
    (pc # "start" /\ lang \in {"cpp", "c"} /\ content # NULL) =>
        /\ Len(content) = 0 => (err = "invalid_argument" /\ doc = <<>>)
        /\ Len(content) >= 1 => err # "invalid_argument"

\* Empty content with a non-empty source was rejected.
C3_EmptyRejectedWitness ==
    /\ pc = "returned"
    /\ content = <<>>
    /\ source = <<"f">>
    /\ err = "invalid_argument"
    /\ doc = <<>>

\* C4: no chunker is configured with, and no chunking run executes with,
\* a chunk size <= 0.
C4_NonPositiveSizeRejected ==
    /\ (lang = "cpp" /\ pc \in {"configured", "ACCUMULATING", "DONE"}) =>
           chunkSize_ > 0
    /\ (lang = "c" /\ pc \in {"ACCUMULATING", "DONE"}) => chunk_size > 0

\* C5 as stated: for a text without '.' and chunkSize > 0, chunk returns
\* exactly the one chunk text.
C5_NoDelimiterOneChunk ==
    (CppDone /\ chunkSize_ > 0 /\ NoDelimiter(text)) => chunks = <<text>>

\* C5 as amended: for a non-empty text without '.' and chunkSize > 0, chunk
\* returns exactly the one chunk text.
C5_NonEmptyNoDelimiterOneChunk ==
    (CppDone /\ chunkSize_ > 0 /\ NoDelimiter(text) /\ text # <<>>) =>
        chunks = <<text>>

\* A text without '.' longer than chunkSize came back as one chunk.
C5_OversizedWitness ==
    /\ CppDone
    /\ chunkSize_ > 0
    /\ NoDelimiter(text)
    /\ Len(text) > chunkSize_
    /\ chunks = <<text>>

\* C6 as stated: for chunkSize > 0 and a text with nothing after its last
\* '.', the chunks split on ". " and rejoined with a '.' after each
\* fragment give back text.
C6_RoundTrip ==
    (CppDone /\ chunkSize_ > 0 /\ DotTerminated(text)) =>
        Reconstruct(chunks) = text

\* C6 as amended: the same, for texts all of whose '.'-terminated fragments
\* are non-empty.
C6_RoundTripNonEmptyFragments ==
    (CppDone /\ chunkSize_ > 0 /\ DotTerminated(text) /\ NoEmptyFragment(text))
        => Reconstruct(chunks) = text

\* A text of several fragments came back in several chunks, one of them of
\* more than one fragment, and is rebuilt from them.
C6_RoundTripWitness ==
    /\ CppDone
    /\ chunkSize_ > 0
    /\ text # <<>>
    /\ DotTerminated(text)
    /\ NoEmptyFragment(text)
    /\ Len(chunks) >= 2
    /\ \E i \in 1..Len(chunks) : FirstSeparator(chunks[i]) # 0
    /\ Reconstruct(chunks) = text

\* C7: chunk of the example text with chunkSize 20 returns the three
\* sentences, each with its '.' and without a leading space.
C7_ExampleChunks ==
    (CppDone /\ text = ExampleText /\ chunkSize_ = 20) =>
        chunks = ExampleChunks

\* C8: for chunkSize > 0, an emitted chunk longer than chunkSize consists of
\* a single fragment; a chunk of two or more fragments has length at most
\* chunkSize.
C8_MultiFragmentChunkFits ==
    (lang = "cpp" /\ pc \in {"ACCUMULATING", "DONE"} /\ chunkSize_ > 0) =>
        \A i \in 1..Len(chunks) :
            Len(chunks[i]) > chunkSize_ => NoDelimiter(chunks[i])

\* C9: a chunking run with a chunk size > 0 that is in ACCUMULATING
\* eventually is in DONE for good, the accumulator flushed.
C9_ReachesDone ==
    []((/\ pc = "ACCUMULATING"
        /\ lang = "cpp" => chunkSize_ > 0
        /\ lang = "c" => chunk_size > 0)
       => <>[](/\ pc = "DONE"
               /\ currentChunk # <<>> =>
                      (chunks # <<>> /\ chunks[Len(chunks)] = currentChunk)))

\* C10: in chunk_text with chunk_size > 0 the number of chunks written never
\* exceeds the number of slots allocated.
C10_WritesWithinAllocation ==
    (lang = "c" /\ chunk_size > 0) => chunk_count <= estimated_chunks

====
